---- MODULE Spec2Model ----
(***************************************************************************)
(* Model of streamlit_app.py: one run of main(), from the season selector  *)
(* to the rendering of the knowledge-graph subgraph, together with         *)
(* load_models() and visualize_subgraph().  External collaborators         *)
(* (prediction, utils, data_collection, kg_utils, pyvis, the file system)  *)
(* are modelled at their call sites: each call either returns one of a     *)
(* small set of values or raises.                                          *)
(***************************************************************************)
EXTENDS Integers, Sequences, FiniteSets, TLC

\* ------------------------------------------------------------------ bounds
\* Largest number of nodes in an extracted context subgraph.
MaxSubgraphNodes == 2

\* ------------------------------------------------------------ input domains
\* Options of the season selectbox.
Seasons == {"2023-24", "2022-23", "2021-22"}

\* Texts typed in the player-name box ("" is the untouched box).
PlayerNames == {"", "LeBron James", "Zzyxx Nobody"}

\* Roster tables get_all_players can return (names of the roster rows).
Rosters == {{}, {"LeBron James"}}

\* Team tables get_team_data can return (the abbreviation column).
TeamTables == {<<>>, <<"BOS", "LAL">>}

\* Regression outputs, in tenths of a point (284 is 28.4).
RegValues == {284, 97}

\* Decisions of the binary classification pipeline.
ClfValues == {0, 1}

\* Exception classes a failing call can raise; KeyError stands for every
\* Exception that is neither a FileNotFoundError nor a ValueError.
ExcTypes == {"FileNotFoundError", "ValueError", "KeyError"}

\* Results of model_manager.get_player_team.
TeamAbbrs == {"LAL", "None"}

\* -------------------------------------------------------- knowledge graph
\* The knowledge graph built by build_knowledge_graph: node identifiers in
\* iteration order, attribute dictionaries and (multi-)edges.
KGNodes == <<"P23", "LAL", "BOS", "G1", "Home", "Perf1", "Coach1", "Misc">>

KGAttrs ==
    [n \in {KGNodes[k] : k \in 1..Len(KGNodes)} |->
        CASE n = "P23"    -> [type |-> "Player", name |-> "LeBron James"]
          [] n = "LAL"    -> [type |-> "Team", name |-> "Lakers"]
          [] n = "BOS"    -> [type |-> "Opponent_Team"]
          [] n = "G1"     -> [type |-> "Game"]
          [] n = "Home"   -> [type |-> "Home_Away", name |-> "Home"]
          [] n = "Perf1"  -> [type |-> "Performance"]
          [] n = "Coach1" -> [type |-> "Coach", name |-> "Coach One"]
          [] OTHER        -> [note |-> "untyped"]]

\* An edge is [u, v, d] with d the edge's attribute dictionary.
KGEdges ==
    << [u |-> "P23",  v |-> "LAL",    d |-> [relation |-> "plays_for"]],
       [u |-> "P23",  v |-> "LAL",    d |-> [relation |-> "captain_of"]],
       [u |-> "P23",  v |-> "G1",     d |-> [relation |-> "played_in"]],
       [u |-> "G1",   v |-> "BOS",    d |-> [relation |-> "against"]],
       [u |-> "G1",   v |-> "Home",   d |-> [relation |-> "location"]],
       [u |-> "P23",  v |-> "Perf1",  d |-> [relation |-> "achieved"]],
       [u |-> "LAL",  v |-> "Coach1", d |-> [relation |-> "coached_by"]],
       [u |-> "Misc", v |-> "Coach1", d |-> [weight |-> "1"]] >>

Range(s) == {s[k] : k \in 1..Len(s)}
Range2(f) == {f[x] : x \in DOMAIN f}

\* ---------------------------------------------------------- Python values
\* Truthiness of a str: the empty string is falsy.
Truthy(s) == s # ""

\* bool(clf_pred) for a number.
PyBool(x) == x # 0

\* The comparison written as clf_pred == 0.
EqualsZero(x) == x = 0

\* clf_pred == 1.
EqualsOne(x) == x = 1

\* 'Yes' if clf_pred == 1 else 'No'
ThresholdText(clf) == IF EqualsOne(clf) THEN "Yes" ELSE "No"

\* f"{reg_pred:.2f}" of a value given in tenths: <<integer part, two decimals>>.
FormatPoints(r) == <<r \div 10, (r % 10) * 10>>

\* 'key' in d, d.get(key)
HasKey(d, key) == key \in DOMAIN d
Get(d, key) == IF key \in DOMAIN d THEN d[key] ELSE "None"

\* d[key] = value on a dictionary
SetItem(d, key, value) ==
    [k \in (DOMAIN d) \cup {key} |-> IF k = key THEN value ELSE d[k]]

\* An unbound Python name is the empty tuple, a bound one a 1-tuple.
None == <<>>
Some(x) == <<x>>
Val(x) == x[1]

\* ------------------------------------------------------------------ graphs
\* A networkx graph object: its nodes in iteration order, its edges in
\* enumeration order, and for each node a reference to the attribute
\* dictionary held in the heap.
KG == [nodes |-> KGNodes,
       edges |-> KGEdges,
       attr  |-> [n \in Range(KGNodes) |-> <<"kg", n>>]]

\* subgraph.number_of_nodes()
number_of_nodes(g) == Len(g.nodes)

\* The node-induced part of the knowledge graph on the node set S.
InducedNodes(S) == SelectSeq(KGNodes, LAMBDA n : n \in S)
InducedEdges(S) == SelectSeq(KGEdges, LAMBDA e : e.u \in S /\ e.v \in S)

\* ------------------------------------------------------------------- state
VARIABLES
    pc,                \* position of the run inside main / visualize_subgraph
    model_manager,     \* result of load_models
    season, player_name, players_df, player_id, all_teams, opponent,
    reg_pred, clf_pred, prediction_result,
    subgraph, player_team_abbr, context_info, explanation,
    subgraph_copy, net, i, tmp_file_path, html,
    heap,              \* attribute dictionaries of all graph nodes, by reference
    fs,                \* files existing in the temporary directory
    created,           \* files created by visualize_subgraph in this call
    exc,               \* the exception raised in this run, with its raising stage
    display,           \* what Streamlit has been asked to show, in order
    log,               \* records written through logging
    calls              \* collaborator calls made so far, in order

inputs == <<season, player_name, players_df, player_id, all_teams, opponent>>
preds  == <<reg_pred, clf_pred, prediction_result>>
ctx    == <<subgraph, player_team_abbr, context_info, explanation>>
viz    == <<subgraph_copy, net, i, tmp_file_path, html, created>>
world  == <<heap, fs>>
out    == <<display, log>>
vars   == <<pc, model_manager, inputs, preds, ctx, viz, world, exc, out, calls>>

\* st.<w>(<m> formatted with the values a)
Show(w, m, a) == display' = Append(display, [w |-> w, m |-> m, a |-> a])

\* logging.error(<m> formatted with the values a)
LogError(m, a) == log' = Append(log, [level |-> "ERROR", m |-> m, a |-> a])

Call(f) == calls' = Append(calls, f)

\* stage raises an exception of class t; control moves to handler
Raise(stage, t, handler) ==
    /\ exc' = Some([stage |-> stage, type |-> t])
    /\ pc' = handler

Shown(m) == \E k \in 1..Len(display) : display[k].m = m
Logged(m) == \E k \in 1..Len(log) : log[k].m = m
Called(f) == \E k \in 1..Len(calls) : calls[k] = f

Init ==
    /\ pc = "main"
    /\ model_manager = None
    /\ season = None /\ player_name = None /\ players_df = None
    /\ player_id = None /\ all_teams = None /\ opponent = None
    /\ reg_pred = None /\ clf_pred = None /\ prediction_result = None
    /\ subgraph = None /\ player_team_abbr = None /\ context_info = None
    /\ explanation = None
    /\ subgraph_copy = None /\ net = None /\ i = 0
    /\ tmp_file_path = None /\ html = None /\ created = {}
    /\ heap = [r \in {<<"kg", n>> : n \in Range(KGNodes)} |-> KGAttrs[r[2]]]
    /\ fs = {}
    /\ exc = None
    /\ display = <<>> /\ log = <<>> /\ calls = <<>>

\* ------------------------------------------------------------- load_models
\* main, lines 112-115: title and season selector.
select_season ==
    /\ pc = "main"
    /\ \E s \in Seasons : season' = Some(s)
    /\ Show("title", "NBA Player Performance Prediction", <<>>)
    /\ pc' = "load_models"
    /\ UNCHANGED <<model_manager, player_name, players_df, player_id,
                   all_teams, opponent, preds, ctx, viz, world, exc, log, calls>>

\* load_models, lines 30-40: build the manager, or log and re-raise.
load_models ==
    /\ pc = "load_models"
    /\ Call("load_models")
    /\ \/ /\ model_manager' = Some("ModelManager")
          /\ pc' = "text_input"
          /\ UNCHANGED <<exc, log>>
       \/ \E t \in ExcTypes :
            /\ IF t = "FileNotFoundError"
                 THEN LogError("Model file missing", <<t>>)
                 ELSE LogError("Unexpected error loading models", <<t>>)
            /\ Raise("load_models", t, "load_except")
            /\ UNCHANGED model_manager
    /\ UNCHANGED <<inputs, preds, ctx, viz, world, display>>

\* main, lines 120-125: the handlers around load_models.
main_load_except ==
    /\ pc = "load_except"
    /\ IF Val(exc).type = "FileNotFoundError"
         THEN Show("error", "Model file missing", <<Val(exc).type>>)
         ELSE Show("error", "An unexpected error occurred while loading models",
                   <<Val(exc).type>>)
    /\ pc' = "done"
    /\ UNCHANGED <<model_manager, inputs, preds, ctx, viz, world, exc, log, calls>>

\* ------------------------------------------------------- entity resolution
\* main, lines 127-129 and 204-205: the player-name box.
text_input ==
    /\ pc = "text_input"
    /\ \E name \in PlayerNames :
         /\ player_name' = Some(name)
         /\ IF Truthy(name)
              THEN pc' = "get_all_players" /\ UNCHANGED display
              ELSE /\ Show("info", "Please enter a player's name to begin prediction.", <<>>)
                   /\ pc' = "done"
    /\ UNCHANGED <<model_manager, season, players_df, player_id, all_teams,
                   opponent, preds, ctx, viz, world, exc, log, calls>>

\* get_all_players without the return of line 134.
get_all_players_no_return ==
    /\ pc = "get_all_players"
    /\ Call("get_all_players")
    /\ \E df \in Rosters :
         /\ players_df' = Some(df)
         /\ IF df = {}
              THEN Show("error", "No player data available for season", <<Val(season)>>)
              ELSE UNCHANGED display
         /\ pc' = "get_player_id"
    /\ UNCHANGED <<model_manager, season, player_name, player_id, all_teams,
                   opponent, preds, ctx, viz, world, exc, log>>

\* main, lines 131-134: fetch the roster; an empty one ends the run.
get_all_players ==
    /\ pc = "get_all_players"
    /\ Call("get_all_players")
    /\ \/ \E df \in Rosters :
            /\ players_df' = Some(df)
            /\ IF df = {}
                 THEN /\ Show("error", "No player data available for season", <<Val(season)>>)
                      /\ pc' = "done"
                 ELSE pc' = "get_player_id" /\ UNCHANGED display
            /\ UNCHANGED exc
       \/ \E t \in ExcTypes :
            /\ Raise("get_all_players", t, "uncaught")
            /\ UNCHANGED <<players_df, display>>
    /\ UNCHANGED <<model_manager, season, player_name, player_id, all_teams,
                   opponent, preds, ctx, viz, world, log>>

\* utils.get_player_id: the identifier of the roster row with that name.
PlayerIdOf(name, df) == IF name \in df THEN "P23" ELSE "None"

\* main, lines 137-140: resolve the name; an unknown one ends the run.
get_player_id ==
    /\ pc = "get_player_id"
    /\ Call("get_player_id")
    /\ \/ /\ player_id' = Some(PlayerIdOf(Val(player_name), Val(players_df)))
          /\ IF player_id' = Some("None")
               THEN /\ Show("error", "Player not found. Please check the name and try again.", <<>>)
                    /\ pc' = "done"
               ELSE pc' = "get_team_data" /\ UNCHANGED display
          /\ UNCHANGED exc
       \/ \E t \in ExcTypes :
            /\ Raise("get_player_id", t, "uncaught")
            /\ UNCHANGED <<player_id, display>>
    /\ UNCHANGED <<model_manager, season, player_name, players_df, all_teams,
                   opponent, preds, ctx, viz, world, log>>

\* main, lines 143-146: fetch the teams; an empty table ends the run.
get_team_data ==
    /\ pc = "get_team_data"
    /\ Call("get_team_data")
    /\ \/ \E tt \in TeamTables :
            /\ all_teams' = Some(tt)
            /\ IF tt = <<>>
                 THEN /\ Show("error", "No team data available.", <<>>)
                      /\ pc' = "done"
                 ELSE pc' = "select_opponent" /\ UNCHANGED display
            /\ UNCHANGED exc
       \/ \E t \in ExcTypes :
            /\ Raise("get_team_data", t, "uncaught")
            /\ UNCHANGED <<all_teams, display>>
    /\ UNCHANGED <<model_manager, season, player_name, players_df, player_id,
                   opponent, preds, ctx, viz, world, log>>

\* main, lines 148-151: opponent selector and header.
select_opponent ==
    /\ pc = "select_opponent"
    /\ \E o \in Range(Val(all_teams)) :
         /\ opponent' = Some(o)
         /\ Show("header", "Predict Performance for", <<Val(player_name), o>>)
    /\ pc' = "button"
    /\ UNCHANGED <<model_manager, season, player_name, players_df, player_id,
                   all_teams, preds, ctx, viz, world, exc, log, calls>>

\* main, line 153: the Predict button.
button ==
    /\ pc = "button"
    /\ \E pressed \in BOOLEAN :
         pc' = IF pressed THEN "prepare_input" ELSE "done"
    /\ UNCHANGED <<model_manager, inputs, preds, ctx, viz, world, exc, out, calls>>

\* -------------------------------------------------------------- prediction
\* main, line 156: build the feature vector.
prepare_input ==
    /\ pc = "prepare_input"
    /\ Call("prepare_input")
    /\ \/ pc' = "predict_regression" /\ UNCHANGED exc
       \/ \E t \in ExcTypes : Raise("prepare_input", t, "main_except")
    /\ UNCHANGED <<model_manager, inputs, preds, ctx, viz, world, out>>

\* main, line 159: the regression pipeline.
predict_regression ==
    /\ pc = "predict_regression"
    /\ Call("predict_regression")
    /\ \/ /\ \E r \in RegValues : reg_pred' = Some(r)
          /\ pc' = "predict_classification"
          /\ UNCHANGED exc
       \/ /\ \E t \in ExcTypes : Raise("predict_regression", t, "main_except")
          /\ UNCHANGED reg_pred
    /\ UNCHANGED <<model_manager, inputs, clf_pred, prediction_result, ctx, viz,
                   world, out>>

\* main, line 160: the classification pipeline.
predict_classification ==
    /\ pc = "predict_classification"
    /\ Call("predict_classification")
    /\ \/ /\ \E c \in ClfValues : clf_pred' = Some(c)
          /\ pc' = "display_predictions"
          /\ UNCHANGED exc
       \/ /\ \E t \in ExcTypes : Raise("predict_classification", t, "main_except")
          /\ UNCHANGED clf_pred
    /\ UNCHANGED <<model_manager, inputs, reg_pred, prediction_result, ctx, viz,
                   world, out>>

\* display_predictions without the two st.write calls.
display_predictions_skipped ==
    /\ pc = "display_predictions"
    /\ pc' = "prediction_result"
    /\ UNCHANGED <<model_manager, inputs, preds, ctx, viz, world, exc, out, calls>>

\* main, lines 163-164: show the two predictions.
display_predictions ==
    /\ pc = "display_predictions"
    /\ display' = display \o
         << [w |-> "write", m |-> "Predicted Points",
             a |-> FormatPoints(Val(reg_pred))],
            [w |-> "write", m |-> "Will Exceed Threshold",
             a |-> <<ThresholdText(Val(clf_pred))>>] >>
    /\ pc' = "prediction_result"
    /\ UNCHANGED <<model_manager, inputs, preds, ctx, viz, world, exc, log, calls>>

\* main, lines 167-170: the PredictionResult dictionary.
PredictionResult(reg, clf) == [points |-> reg, exceeds_threshold |-> PyBool(clf)]

build_prediction_result ==
    /\ pc = "prediction_result"
    /\ prediction_result' = Some(PredictionResult(Val(reg_pred), Val(clf_pred)))
    /\ pc' = "extract_context_subgraph"
    /\ UNCHANGED <<model_manager, inputs, reg_pred, clf_pred, ctx, viz, world,
                   exc, out, calls>>

\* ----------------------------------------------------------------- context
\* kg_utils.extract_context_subgraph: a part of the knowledge graph with at
\* most MaxSubgraphNodes nodes, either a view sharing the attribute
\* dictionaries of the knowledge graph or an independent copy of them.
extract_context_subgraph ==
    /\ pc = "extract_context_subgraph"
    /\ Call("extract_context_subgraph")
    /\ \/ \E S \in SUBSET Range(KGNodes), view \in BOOLEAN :
            /\ Cardinality(S) <= MaxSubgraphNodes
            /\ subgraph' = Some([nodes |-> InducedNodes(S),
                                 edges |-> InducedEdges(S),
                                 attr  |-> [n \in S |-> IF view THEN KG.attr[n]
                                                        ELSE <<"sg", n>>]])
            /\ heap' = IF view THEN heap
                       ELSE [r \in (DOMAIN heap) \cup {<<"sg", n>> : n \in S} |->
                               IF r \in DOMAIN heap THEN heap[r]
                               ELSE heap[KG.attr[r[2]]]]
            /\ pc' = "get_player_team"
            /\ UNCHANGED exc
       \/ /\ \E t \in ExcTypes : Raise("extract_context_subgraph", t, "main_except")
          /\ UNCHANGED <<subgraph, heap>>
    /\ UNCHANGED <<model_manager, inputs, preds, player_team_abbr, context_info,
                   explanation, viz, fs, out>>

\* main, line 174: the player's team, or None.
get_player_team ==
    /\ pc = "get_player_team"
    /\ Call("get_player_team")
    /\ \/ /\ \E a \in TeamAbbrs : player_team_abbr' = Some(a)
          /\ pc' = "context_info"
          /\ UNCHANGED exc
       \/ /\ \E t \in ExcTypes : Raise("get_player_team", t, "main_except")
          /\ UNCHANGED player_team_abbr
    /\ UNCHANGED <<model_manager, inputs, preds, subgraph, context_info,
                   explanation, viz, world, out>>

\* The comprehension with source and target exchanged.
RelationshipsSwapped(g) ==
    [k \in 1..Len(g.edges) |->
        [source   |-> g.edges[k].v,
         target   |-> g.edges[k].u,
         relation |-> g.edges[k].d["relation"]]]

\* main, lines 180-187: one triple per edge of subgraph.edges(data=True).
Relationships(g) ==
    [k \in 1..Len(g.edges) |->
        [source   |-> g.edges[k].u,
         target   |-> g.edges[k].v,
         relation |-> g.edges[k].d["relation"]]]

\* d['relation'] raises KeyError on an edge without that attribute.
RelationMissing(g) ==
    \E k \in 1..Len(g.edges) : ~HasKey(g.edges[k].d, "relation")

\* main, lines 176-188: the ContextInfo dictionary.
build_context_info ==
    /\ pc = "context_info"
    /\ IF RelationMissing(Val(subgraph))
         THEN /\ Raise("context_info", "KeyError", "main_except")
              /\ UNCHANGED context_info
         ELSE /\ context_info' = Some(
                    [Player        |-> Val(player_name),
                     Player_Team   |-> IF Val(player_team_abbr) # "None"
                                         THEN Val(player_team_abbr) ELSE "Unknown",
                     Opponent      |-> Val(opponent),
                     Relationships |-> Relationships(Val(subgraph))])
              /\ pc' = "generate_explanation"
              /\ UNCHANGED exc
    /\ UNCHANGED <<model_manager, inputs, preds, subgraph, player_team_abbr,
                   explanation, viz, world, out, calls>>

\* main, lines 190-192: ask for the explanation and show it.
generate_explanation ==
    /\ pc = "generate_explanation"
    /\ Call("generate_explanation")
    /\ \/ /\ explanation' = Some("explanation")
          /\ display' = display \o
               << [w |-> "subheader", m |-> "Prediction Explanation", a |-> <<>>],
                  [w |-> "write", m |-> "explanation", a |-> <<>>] >>
          /\ pc' = "visualize_subgraph"
          /\ UNCHANGED exc
       \/ /\ \E t \in ExcTypes : Raise("generate_explanation", t, "main_except")
          /\ UNCHANGED <<explanation, display>>
    /\ UNCHANGED <<model_manager, inputs, preds, subgraph, player_team_abbr,
                   context_info, viz, world, log>>

\* main, lines 198-203: the handlers of the Predict branch.
main_except ==
    /\ pc = "main_except"
    /\ CASE Val(exc).type = "FileNotFoundError" ->
              Show("error", "Model file missing", <<Val(exc).type>>)
         [] Val(exc).type = "ValueError" ->
              Show("error", "Input error", <<Val(exc).type>>)
         [] OTHER ->
              Show("error", "An unexpected error occurred", <<Val(exc).type>>)
    /\ pc' = "done"
    /\ UNCHANGED <<model_manager, inputs, preds, ctx, viz, world, exc, log, calls>>

\* ------------------------------------------------------ visualize_subgraph
\* main, lines 195-196: subheader, then the call.
call_visualize_subgraph ==
    /\ pc = "visualize_subgraph"
    /\ Show("subheader", "Knowledge Graph Subgraph", <<>>)
    /\ Call("visualize_subgraph")
    /\ pc' = "viz_entry"
    /\ UNCHANGED <<model_manager, inputs, preds, ctx, viz, world, exc, log>>

\* viz_entry with the test number_of_nodes() <= 1.
viz_entry_off_by_one ==
    /\ pc = "viz_entry"
    /\ IF number_of_nodes(Val(subgraph)) <= 1
         THEN /\ Show("warning", "No subgraph available to display.", <<>>)
              /\ pc' = "viz_returned"
         ELSE pc' = "viz_copy" /\ UNCHANGED display
    /\ UNCHANGED <<model_manager, inputs, preds, ctx, viz, world, exc, log, calls>>

\* visualize_subgraph, lines 50-52: nothing to draw for an empty subgraph.
viz_entry ==
    /\ pc = "viz_entry"
    /\ IF number_of_nodes(Val(subgraph)) = 0
         THEN /\ Show("warning", "No subgraph available to display.", <<>>)
              /\ pc' = "viz_returned"
         ELSE pc' = "viz_copy" /\ UNCHANGED display
    /\ UNCHANGED <<model_manager, inputs, preds, ctx, viz, world, exc, log, calls>>

\* A copy that shares the attribute dictionaries of the original.
CopyRefsShared(g) == g.attr

\* Graph.copy(): the copy holds fresh attribute dictionaries.
CopyRefs(g) == [n \in Range(g.nodes) |-> <<"cp", n>>]

\* visualize_subgraph, line 56: subgraph_copy = subgraph.copy()
viz_copy ==
    /\ pc = "viz_copy"
    /\ \/ LET g    == Val(subgraph)
              refs == CopyRefs(g)
          IN  /\ subgraph_copy' = Some([nodes |-> g.nodes, edges |-> g.edges,
                                        attr |-> refs])
              /\ heap' = [r \in (DOMAIN heap) \cup Range2(refs) |->
                            IF r \in DOMAIN heap THEN heap[r]
                            ELSE heap[g.attr[r[2]]]]
              /\ i' = 1
              /\ pc' = "viz_label"
              /\ UNCHANGED exc
       \/ /\ \E t \in ExcTypes : Raise("copy", t, "viz_except")
          /\ UNCHANGED <<subgraph_copy, heap, i>>
    /\ UNCHANGED <<model_manager, inputs, preds, ctx, net, tmp_file_path, html,
                   created, fs, out, calls>>

\* lines 60-64: the label of one node.
LabelOf(node, data) == IF HasKey(data, "name") THEN data["name"] ELSE node

\* visualize_subgraph, lines 59-64: one iteration of the labelling loop.
viz_label ==
    /\ pc = "viz_label"
    /\ LET g    == Val(subgraph_copy)
           node == g.nodes[i]
           data == heap[g.attr[node]]
       IN  \/ /\ heap' = [heap EXCEPT ![g.attr[node]] =
                             SetItem(data, "label", LabelOf(node, data))]
              /\ i' = i + 1
              /\ pc' = IF i = Len(g.nodes) THEN "viz_from_nx" ELSE "viz_label"
              /\ UNCHANGED exc
           \/ /\ \E t \in ExcTypes : Raise("label", t, "viz_except")
              /\ UNCHANGED <<heap, i>>
    /\ UNCHANGED <<model_manager, inputs, preds, ctx, subgraph_copy, net,
                   tmp_file_path, html, created, fs, out, calls>>

\* pyvis add_node: the node's options are the renderer defaults overridden
\* by the node's attributes.
NodeOptions(data) ==
    [k \in (DOMAIN data) \cup {"color", "shape"} |->
        IF k \in DOMAIN data THEN data[k]
        ELSE IF k = "color" THEN "#97c2fc" ELSE "dot"]

\* visualize_subgraph, lines 67-68: Network(...) and net.from_nx(subgraph_copy)
viz_from_nx ==
    /\ pc = "viz_from_nx"
    /\ \/ LET g == Val(subgraph_copy)
          IN  /\ net' = Some([n \in Range(g.nodes) |-> NodeOptions(heap[g.attr[n]])])
              /\ i' = 1
              /\ pc' = "viz_style"
              /\ UNCHANGED exc
       \/ /\ \E t \in ExcTypes : Raise("from_nx", t, "viz_except")
          /\ UNCHANGED <<net, i>>
    /\ UNCHANGED <<model_manager, inputs, preds, ctx, subgraph_copy,
                   tmp_file_path, html, created, world, out, calls>>

\* The chain with a final else branch that styles every other type.
StyleWithElse(options, node_type) ==
    IF node_type \in {"Player", "Team", "Game", "Opponent_Team", "Home_Away",
                      "Performance"}
      THEN LET cs == [Player |-> <<"blue", "ellipse">>, Team |-> <<"green", "box">>,
                      Game |-> <<"red", "diamond">>,
                      Opponent_Team |-> <<"purple", "dot">>,
                      Home_Away |-> <<"orange", "triangle">>,
                      Performance |-> <<"yellow", "star">>][node_type]
           IN  SetItem(SetItem(options, "color", cs[1]), "shape", cs[2])
      ELSE SetItem(SetItem(options, "color", "gray"), "shape", "dot")

\* lines 73-90: the chain of type comparisons applied to one node's options.
Style(options, node_type) ==
    IF node_type = "Player"
      THEN SetItem(SetItem(options, "color", "blue"), "shape", "ellipse")
    ELSE IF node_type = "Team"
      THEN SetItem(SetItem(options, "color", "green"), "shape", "box")
    ELSE IF node_type = "Game"
      THEN SetItem(SetItem(options, "color", "red"), "shape", "diamond")
    ELSE IF node_type = "Opponent_Team"
      THEN SetItem(SetItem(options, "color", "purple"), "shape", "dot")
    ELSE IF node_type = "Home_Away"
      THEN SetItem(SetItem(options, "color", "orange"), "shape", "triangle")
    ELSE IF node_type = "Performance"
      THEN SetItem(SetItem(options, "color", "yellow"), "shape", "star")
    ELSE options

\* lines 73-90: the branches taken for these types call net.get_node, the
\* only operation of the loop body that can raise; no other type reaches it.
CallsGetNode(node_type) ==
    node_type \in {"Player", "Team", "Game", "Opponent_Team", "Home_Away",
                   "Performance"}

\* visualize_subgraph, lines 71-90: one iteration of the styling loop.
viz_style ==
    /\ pc = "viz_style"
    /\ LET g    == Val(subgraph_copy)
           node == g.nodes[i]
           data == heap[g.attr[node]]
       IN  \/ /\ net' = Some([Val(net) EXCEPT ![node] = Style(@, Get(data, "type"))])
              /\ i' = i + 1
              /\ pc' = IF i = Len(g.nodes) THEN "viz_tempfile" ELSE "viz_style"
              /\ UNCHANGED exc
           \/ /\ CallsGetNode(Get(data, "type"))
              /\ \E t \in ExcTypes : Raise("style", t, "viz_except")
              /\ UNCHANGED <<net, i>>
    /\ UNCHANGED <<model_manager, inputs, preds, ctx, subgraph_copy,
                   tmp_file_path, html, created, world, out, calls>>

\* The name tempfile gives to the new file.
TmpName == "tmp.html"

\* visualize_subgraph, line 93: NamedTemporaryFile('w', delete=False, ...)
viz_tempfile ==
    /\ pc = "viz_tempfile"
    /\ \/ /\ fs' = fs \cup {TmpName}
          /\ created' = created \cup {TmpName}
          /\ pc' = "viz_save_graph"
          /\ UNCHANGED exc
       \/ /\ \E t \in ExcTypes : Raise("tempfile", t, "viz_except")
          /\ UNCHANGED <<fs, created>>
    /\ UNCHANGED <<model_manager, inputs, preds, ctx, subgraph_copy, net, i,
                   tmp_file_path, html, heap, out, calls>>

\* visualize_subgraph, lines 94-95: net.save_graph(tmp_file.name)
viz_save_graph ==
    /\ pc = "viz_save_graph"
    /\ \/ /\ tmp_file_path' = Some(TmpName)
          /\ pc' = "viz_read"
          /\ UNCHANGED exc
       \/ /\ \E t \in ExcTypes : Raise("save_graph", t, "viz_except")
          /\ UNCHANGED tmp_file_path
    /\ UNCHANGED <<model_manager, inputs, preds, ctx, subgraph_copy, net, i,
                   html, created, world, out, calls>>

\* visualize_subgraph, lines 98-99: read the file back.
viz_read ==
    /\ pc = "viz_read"
    /\ \/ /\ Val(tmp_file_path) \in fs
          /\ html' = Some("html")
          /\ pc' = "viz_remove"
          /\ UNCHANGED exc
       \/ /\ \E t \in ExcTypes : Raise("read", t, "viz_except")
          /\ UNCHANGED html
    /\ UNCHANGED <<model_manager, inputs, preds, ctx, subgraph_copy, net, i,
                   tmp_file_path, created, world, out, calls>>

\* visualize_subgraph, line 102: os.remove(tmp_file_path)
viz_remove ==
    /\ pc = "viz_remove"
    /\ \/ /\ fs' = fs \ {Val(tmp_file_path)}
          /\ pc' = "viz_html"
          /\ UNCHANGED exc
       \/ /\ \E t \in ExcTypes : Raise("remove", t, "viz_except")
          /\ UNCHANGED fs
    /\ UNCHANGED <<model_manager, inputs, preds, ctx, subgraph_copy, net, i,
                   tmp_file_path, html, created, heap, out, calls>>

\* viz_html with the call placed after the try block.
viz_html_outside_try ==
    /\ pc = "viz_html"
    /\ \/ /\ Show("html", "components.html", <<>>)
          /\ pc' = "viz_returned"
          /\ UNCHANGED exc
       \/ /\ \E t \in ExcTypes : Raise("html", t, "main_except")
          /\ UNCHANGED display
    /\ UNCHANGED <<model_manager, inputs, preds, ctx, viz, world, log, calls>>

\* visualize_subgraph, line 105: components.html(html, height=550)
viz_html ==
    /\ pc = "viz_html"
    /\ \/ /\ Show("html", "components.html", <<>>)
          /\ pc' = "viz_returned"
          /\ UNCHANGED exc
       \/ /\ \E t \in ExcTypes : Raise("html", t, "viz_except")
          /\ UNCHANGED display
    /\ UNCHANGED <<model_manager, inputs, preds, ctx, viz, world, log, calls>>

\* visualize_subgraph, lines 106-109: log the traceback, show the error.
viz_except ==
    /\ pc = "viz_except"
    /\ LogError("Error visualizing subgraph", <<Val(exc).type, "traceback">>)
    /\ Show("error", "Error visualizing the Knowledge Graph subgraph.", <<>>)
    /\ pc' = "viz_returned"
    /\ UNCHANGED <<model_manager, inputs, preds, ctx, viz, world, exc, calls>>

\* main, line 196: visualize_subgraph has returned and the try block ends.
viz_return ==
    /\ pc = "viz_returned"
    /\ pc' = "done"
    /\ UNCHANGED <<model_manager, inputs, preds, ctx, viz, world, exc, out, calls>>

\* ----------------------------------------------------------- specification
Next ==
    \/ select_season
    \/ load_models
    \/ main_load_except
    \/ text_input
    \/ get_all_players
    \/ get_player_id
    \/ get_team_data
    \/ select_opponent
    \/ button
    \/ prepare_input
    \/ predict_regression
    \/ predict_classification
    \/ display_predictions
    \/ build_prediction_result
    \/ extract_context_subgraph
    \/ get_player_team
    \/ build_context_info
    \/ generate_explanation
    \/ main_except
    \/ call_visualize_subgraph
    \/ viz_entry
    \/ viz_copy
    \/ viz_label
    \/ viz_from_nx
    \/ viz_style
    \/ viz_tempfile
    \/ viz_save_graph
    \/ viz_read
    \/ viz_remove
    \/ viz_html
    \/ viz_except
    \/ viz_return

Spec == Init /\ [][Next]_vars

\* ------------------------------------------------------------------ claims
NoPlayerData   == "No player data available for season"
PlayerNotFound == "Player not found. Please check the name and try again."
VizError       == "Error visualizing the Knowledge Graph subgraph."
VizWarning     == "No subgraph available to display."

\* Every stage of main that comes after the resolution of the player.
LaterStages ==
    {"get_team_data", "prepare_input", "predict_regression",
     "predict_classification", "extract_context_subgraph", "get_player_team",
     "generate_explanation", "visualize_subgraph"}

NoLaterStage ==
    /\ \A f \in LaterStages : ~Called(f)
    /\ all_teams = None /\ opponent = None
    /\ reg_pred = None /\ clf_pred = None /\ prediction_result = None
    /\ subgraph = None /\ context_info = None /\ explanation = None
    /\ subgraph_copy = None /\ net = None /\ created = {}
    /\ ~Shown("Predicted Points") /\ ~Shown("components.html")

\* C1: an empty roster shows the "No player data available" message and ends
\* the run, an unresolved player shows the different "Player not found"
\* message and ends the run, and in both cases no later stage is invoked.
C1_HaltsBeforeLaterStages ==
    /\ players_df = Some({}) =>
         /\ pc = "done"
         /\ Shown(NoPlayerData) /\ ~Shown(PlayerNotFound)
         /\ ~Called("get_player_id")
         /\ NoLaterStage
    /\ player_id = Some("None") =>
         /\ pc = "done"
         /\ Shown(PlayerNotFound) /\ ~Shown(NoPlayerData)
         /\ NoLaterStage

C1_Witness ==
    /\ pc = "done"
    /\ player_name = Some("Zzyxx Nobody")
    /\ player_id = Some("None")
    /\ Shown(PlayerNotFound)

\* The stages of the Predict branch that follow the display of the numbers.
AfterDisplayStages ==
    {"extract_context_subgraph", "get_player_team", "generate_explanation",
     "visualize_subgraph"}

PredictionShown ==
    /\ \E k \in 1..Len(display) :
         /\ display[k].m = "Predicted Points"
         /\ display[k].a = FormatPoints(Val(reg_pred))
    /\ Shown("Will Exceed Threshold")

\* C2: once prepare_input and both pipelines have returned, the predicted
\* points and the threshold outcome are displayed before any of
\* extract_context_subgraph, get_player_team, generate_explanation and
\* visualize_subgraph is invoked, and they stay displayed whichever of those
\* raises.
C2_PredictionShownBeforeLaterSteps ==
    /\ (\E f \in AfterDisplayStages : Called(f)) => PredictionShown
    /\ (clf_pred # None /\ pc # "display_predictions") => PredictionShown

C2_Witness ==
    /\ pc = "done"
    /\ exc # None
    /\ Val(exc) = [stage |-> "generate_explanation", type |-> "KeyError"]
    /\ Shown("An unexpected error occurred")
    /\ PredictionShown

\* The steps of visualize_subgraph inside its try block.
RenderingSteps ==
    {"copy", "label", "from_nx", "style", "tempfile", "save_graph", "read",
     "remove", "html"}

MainErrorMessages ==
    {"Model file missing", "Input error", "An unexpected error occurred"}

\* The stage that raised, if any.
ExcStage == IF exc = None THEN "none" ELSE Val(exc).stage

RenderingFailed == ExcStage \in RenderingSteps

\* C3: for a subgraph with at least one node, an exception raised by a
\* rendering step is caught inside visualize_subgraph, logged and shown as
\* the visualization error; visualize_subgraph then returns normally and no
\* except handler of main is entered because of rendering.
C3_RenderingFailureContained ==
    /\ pc = "main_except" => ExcStage \notin RenderingSteps
    /\ RenderingFailed =>
         /\ number_of_nodes(Val(subgraph)) >= 1
         /\ pc \in {"viz_except", "viz_returned", "done"}
         /\ pc # "viz_except" =>
              /\ Logged("Error visualizing subgraph")
              /\ Shown(VizError)
         /\ \A m \in MainErrorMessages : ~Shown(m)

C3_Witness ==
    /\ pc = "done"
    /\ ExcStage = "html"
    /\ Shown(VizError)
    /\ Logged("Error visualizing subgraph")

\* C4: whenever visualize_subgraph has returned, the temporary file it
\* created in that call no longer exists.
C4_TempFileRemovedOnReturn ==
    pc \in {"viz_returned", "done"} => created \cap fs = {}

VisualizeInvoked == Called("visualize_subgraph") /\ pc # "viz_entry"

RenderingAttempted ==
    \/ subgraph_copy # None
    \/ net # None
    \/ created # {}
    \/ Shown("components.html")
    \/ RenderingFailed
    \/ pc \in {"viz_copy", "viz_label", "viz_from_nx", "viz_style",
               "viz_tempfile", "viz_save_graph", "viz_read", "viz_remove",
               "viz_html", "viz_except"}

\* C5: for a subgraph with zero nodes visualize_subgraph shows the "no
\* subgraph" warning and makes no copy, builds no Network, creates no file
\* and emits no HTML; those steps are attempted only for a subgraph with at
\* least one node.
C5_EmptySubgraphSkipsRendering ==
    /\ (VisualizeInvoked /\ number_of_nodes(Val(subgraph)) = 0) =>
         /\ Shown(VizWarning)
         /\ ~RenderingAttempted
    /\ (VisualizeInvoked /\ number_of_nodes(Val(subgraph)) >= 1) =>
         /\ ~Shown(VizWarning)
         /\ RenderingAttempted
    /\ RenderingAttempted => number_of_nodes(Val(subgraph)) >= 1

C5_Witness ==
    /\ pc = "done"
    /\ Called("visualize_subgraph")
    /\ number_of_nodes(Val(subgraph)) = 0
    /\ Shown(VizWarning)

\* Positions at which the labelling loop has covered the first k nodes.
LabelledUpTo ==
    IF pc = "viz_label" \/ ExcStage = "label" THEN i - 1
    ELSE IF subgraph_copy # None THEN Len(Val(subgraph_copy).nodes)
    ELSE 0

ExpectedLabel(n) ==
    IF "name" \in DOMAIN KGAttrs[n] THEN KGAttrs[n]["name"] ELSE n

\* C6: every node of the working copy is labelled with its name attribute
\* when it has one and with its identifier otherwise, and only the working
\* copy is labelled: the subgraph passed in and the knowledge graph keep
\* their nodes, edges and node attributes (no label attribute appears).
C6_CopyIsolation ==
    /\ subgraph_copy # None =>
         \A k \in 1..LabelledUpTo :
            LET n == Val(subgraph_copy).nodes[k]
            IN  /\ HasKey(heap[Val(subgraph_copy).attr[n]], "label")
                /\ heap[Val(subgraph_copy).attr[n]]["label"] = ExpectedLabel(n)
    /\ \A n \in Range(KGNodes) :
         /\ heap[KG.attr[n]] = KGAttrs[n]
         /\ ~HasKey(heap[KG.attr[n]], "label")
    /\ subgraph # None =>
         LET g == Val(subgraph)
         IN  /\ g.nodes = InducedNodes(Range(g.nodes))
             /\ g.edges = InducedEdges(Range(g.nodes))
             /\ \A n \in Range(g.nodes) :
                  /\ heap[g.attr[n]] = KGAttrs[n]
                  /\ ~HasKey(heap[g.attr[n]], "label")

C6_Witness ==
    /\ pc = "viz_returned"
    /\ exc = None
    /\ subgraph_copy # None
    /\ Val(subgraph).nodes = <<"P23", "G1">>
    /\ Val(subgraph).attr["G1"] = KG.attr["G1"]
    /\ heap[Val(subgraph_copy).attr["P23"]]["label"] = "LeBron James"
    /\ heap[Val(subgraph_copy).attr["G1"]]["label"] = "G1"

\* The styling table of the renderer: type -> <<color, shape>>.
StyleTable ==
    [Player        |-> <<"blue", "ellipse">>,
     Team          |-> <<"green", "box">>,
     Game          |-> <<"red", "diamond">>,
     Opponent_Team |-> <<"purple", "dot">>,
     Home_Away     |-> <<"orange", "triangle">>,
     Performance   |-> <<"yellow", "star">>]

\* Color and shape pyvis gives a node that sets none.
RendererDefault == <<"#97c2fc", "dot">>

\* Number of nodes the styling loop has finished with.
StyledUpTo ==
    IF net = None THEN 0
    ELSE IF pc = "viz_style" \/ ExcStage = "style" THEN i - 1
    ELSE Len(Val(subgraph_copy).nodes)

NodeType(n) == IF "type" \in DOMAIN KGAttrs[n] THEN KGAttrs[n]["type"] ELSE "None"

\* C7: after styling, a node of one of the six known types has the color and
\* shape of the table; a node whose type is missing or unknown keeps the
\* renderer defaults, and styling it does not raise.
C7_StyleLookup ==
    /\ \A k \in 1..StyledUpTo :
         LET n == Val(subgraph_copy).nodes[k]
             o == Val(net)[n]
         IN  IF NodeType(n) \in DOMAIN StyleTable
               THEN <<o["color"], o["shape"]>> = StyleTable[NodeType(n)]
               ELSE <<o["color"], o["shape"]>> = RendererDefault
    /\ ExcStage = "style" =>
         NodeType(Val(subgraph_copy).nodes[i]) \in DOMAIN StyleTable

C7_Witness ==
    /\ pc = "viz_returned"
    /\ exc = None
    /\ net # None
    /\ Val(subgraph_copy).nodes = <<"G1", "Coach1">>
    /\ Val(net)["G1"]["color"] = "red"
    /\ Val(net)["G1"]["shape"] = "diamond"
    /\ Val(net)["Coach1"]["color"] = "#97c2fc"

\* C8: the Relationships list of context_info holds exactly one {source,
\* target, relation} triple per edge of the extracted subgraph, in edge
\* order, every source and target is a node of that subgraph, and an empty
\* subgraph gives an empty list.
C8_ReferentialClosure ==
    context_info # None =>
        LET rels == Val(context_info).Relationships
            g    == Val(subgraph)
        IN  /\ Len(rels) = Len(g.edges)
            /\ \A k \in 1..Len(rels) :
                 /\ rels[k].source = g.edges[k].u
                 /\ rels[k].target = g.edges[k].v
                 /\ rels[k].relation = g.edges[k].d["relation"]
                 /\ rels[k].source \in Range(g.nodes)
                 /\ rels[k].target \in Range(g.nodes)
            /\ number_of_nodes(g) = 0 => rels = <<>>

C8_Witness ==
    /\ context_info # None
    /\ Val(subgraph).nodes = <<"P23", "LAL">>
    /\ Len(Val(context_info).Relationships) = 2
    /\ Val(context_info).Relationships[2] =
         [source |-> "P23", target |-> "LAL", relation |-> "captain_of"]

\* Messages that report a caught failure to the user.
CaughtFailureMessages ==
    MainErrorMessages \cup
    {"An unexpected error occurred while loading models", VizError}

\* C9: whenever a caught failure has been turned into a user-facing error
\* message, a log record of that failure has been written.
C9_FailureLoggedWhenShown ==
    (\E m \in CaughtFailureMessages : Shown(m)) =>
        \E k \in 1..Len(log) : log[k].a[1] = Val(exc).type

ThresholdShown(text) ==
    \E k \in 1..Len(display) :
        display[k].m = "Will Exceed Threshold" /\ display[k].a = <<text>>

\* C10: the displayed threshold outcome agrees with the PredictionResult:
\* "Yes" is shown exactly when exceeds_threshold is true and "No" exactly
\* when it is false.
C10_DisplayAgreesWithResult ==
    prediction_result # None =>
        /\ ThresholdShown("Yes") <=> Val(prediction_result).exceeds_threshold
        /\ ThresholdShown("No") <=> ~Val(prediction_result).exceeds_threshold

C10_Witness ==
    /\ prediction_result # None
    /\ clf_pred = Some(1)
    /\ Val(prediction_result).exceeds_threshold
    /\ ThresholdShown("Yes")

====
